---- MODULE Spec2Model ----
(***************************************************************************)
(* Image acquisition, content-addressed caching and flash dispatch of the  *)
(* Turing Pi Terraform provider:                                           *)
(*   internal/client/download.go   (DownloadImage, the Fetcher)            *)
(*   internal/client/cache.go      (ImageCache, the ContentStore)          *)
(*   internal/resources/node_flash (executeFlash, the orchestrator)        *)
(* One provisioning flow is a sequence of steps, one per I/O primitive the *)
(* code calls; the outcome of every primitive (success, failure) is chosen *)
(* by the environment.                                                     *)
(***************************************************************************)
EXTENDS Integers, Sequences, FiniteSets, TLC

VARIABLES
    localDir,    \* TRUE once ~/.cache/terraform-provider-turingpi exists
    localCache,  \* entry name (hash string) -> content of <localDir>/<name>.img
    bmcDir,      \* TRUE once /tmp/tpi-cache exists on the BMC
    bmcCache,    \* entry name (hash string) -> content of /tmp/tpi-cache/<name>.img
    flow,        \* per provisioning flow: position and locals of executeFlash
    power,       \* node -> TRUE when the board powers the node
    usb,         \* the board's USB configuration: mode, node, route
    powerCall,   \* the node_power Create/Update in progress
    usbCall,     \* the node_usb Create/Update in progress
    fetch,       \* one run of DownloadImage's file handling on given inputs
    maint        \* the last call of ImageCache made outside executeFlash

vars == <<localDir, localCache, bmcDir, bmcCache, flow,
          power, usb, powerCall, usbCall, fetch, maint>>

\* the state of calls made to package client directly
apiVars == <<fetch, maint>>

\* the state of the board's power and USB and of the two device resources
devVars == <<power, usb, powerCall, usbCall>>

\* the state of the caches and of the provisioning flows
flashVars == <<localDir, localCache, bmcDir, bmcCache, flow>>

----------------------------------------------------------------------------
(* Values *)

Flows == {1, 2}
\* flows that run in the sequential specification
SeqFlows == {1}
\* flow f provisions node f (one node_flash resource per node)
Nodes == Flows

\* file contents: the decompressed image, a truncated file, a still
\* compressed download
Images == {"imgA"}
NoFile == "nofile"
Partial == "partial"
Packed == "packed"

\* the strings a plan may carry in its sha256 attribute: unset, the digest hA
\* of the image, the digest hB of some other content, or a short string (the
\* schema has no validator on sha256)
ShaInputs == {"", "hA", "hB", "ab12"}
\* names an entry <name>.img can have
Names == ShaInputs \ {""}

CacheLocationLocal == "local"
CacheLocationBMC == "bmc"
CacheLocationNone == "none"
CacheLocations == {CacheLocationLocal, CacheLocationBMC, CacheLocationNone}

\* hex(sha256(bytes)): one digest per content, none of them a short string
calculateSHA256(c) ==
    CASE c = "imgA" -> "hA"
      [] c = "imgB" -> "hB"
      [] c = Partial -> "hPartial"
      [] OTHER -> "hPacked"

\* len(s) of a sha256 string
HashLen(s) ==
    CASE s = "" -> 0
      [] s = "ab12" -> 4
      [] OTHER -> 64

\* paths are <<directory, file>>
NoPath == <<"", "">>
LocalCachePath(h) == <<"localcache", h>>
BMCCachePath(h) == <<"bmccache", h>>
UserPath(p) == <<"user", p>>
TmpPath(n) == <<"tmp", n>>

\* the caller's image files (image_path) and what they hold
LocalFiles == [fileA |-> "imgA"]
ImagePaths == DOMAIN LocalFiles

\* the URLs of the model: the suffix of the file name, the Content-Type the
\* server reports, the image served and the container it is served in
\* (strings the code inspects are sequences of one-character strings)
URLs == {
    [suffix |-> <<".", "i", "m", "g">>,
     ctype |-> <<"a", "p", "p", "l", "i", "c", "a", "t", "i", "o", "n", "/", "o", "c", "t", "e", "t", "-", "s", "t", "r", "e", "a", "m">>,
     image |-> "imgA", packed |-> ""],
    [suffix |-> <<".", "x", "z">>,
     ctype |-> <<"a", "p", "p", "l", "i", "c", "a", "t", "i", "o", "n", "/", "x", "-", "x", "z">>,
     image |-> "imgA", packed |-> "xz"] }
NoURL == [suffix |-> << >>, ctype |-> << >>, image |-> "", packed |-> ""]

----------------------------------------------------------------------------
(* download.go *)

UpperCase ==
    <<"A", "B", "C", "D", "E", "F", "G", "H", "I", "J", "K", "L", "M", "N", "O", "P", "Q", "R", "S", "T", "U", "V", "W", "X", "Y", "Z">>
LowerCase ==
    <<"a", "b", "c", "d", "e", "f", "g", "h", "i", "j", "k", "l", "m", "n", "o", "p", "q", "r", "s", "t", "u", "v", "w", "x", "y", "z">>

\* strings.ToLower
ToLower(s) ==
    [i \in DOMAIN s |->
        IF \E k \in DOMAIN UpperCase : UpperCase[k] = s[i]
        THEN LowerCase[CHOOSE k \in DOMAIN UpperCase : UpperCase[k] = s[i]]
        ELSE s[i]]

\* strings.HasSuffix
HasSuffix(s, suffix) ==
    /\ Len(s) >= Len(suffix)
    /\ SubSeq(s, Len(s) - Len(suffix) + 1, Len(s)) = suffix

\* strings.TrimSuffix
TrimSuffix(s, suffix) ==
    IF HasSuffix(s, suffix) THEN SubSeq(s, 1, Len(s) - Len(suffix)) ELSE s

\* strings.Contains
Contains(s, substr) ==
    \E i \in 1..(Len(s) - Len(substr) + 1) :
        SubSeq(s, i, i + Len(substr) - 1) = substr

\* a detection that asks the content type before the suffix
detectCompression_ContentTypeFirst(rawURL, rawContentType) ==
    LET url == ToLower(rawURL)
        contentType == ToLower(rawContentType)
    IN  IF Contains(contentType, <<"x", "z">>) THEN "xz"
        ELSE IF Contains(contentType, <<"g", "z", "i", "p">>) THEN "gz"
        ELSE IF Contains(contentType, <<"z", "i", "p">>) THEN "zip"
        ELSE IF HasSuffix(url, <<".", "x", "z">>) THEN "xz"
        ELSE IF HasSuffix(url, <<".", "g", "z">>) \/ HasSuffix(url, <<".", "g", "z", "i", "p">>) THEN "gz"
        ELSE IF HasSuffix(url, <<".", "z", "i", "p">>) THEN "zip"
        ELSE ""

detectCompression(rawURL, rawContentType) ==
    LET url == ToLower(rawURL)
        contentType == ToLower(rawContentType)
    IN  IF HasSuffix(url, <<".", "x", "z">>) THEN "xz"
        ELSE IF HasSuffix(url, <<".", "g", "z">>) \/ HasSuffix(url, <<".", "g", "z", "i", "p">>) THEN "gz"
        ELSE IF HasSuffix(url, <<".", "z", "i", "p">>) THEN "zip"
        ELSE IF Contains(contentType, <<"x", "z">>) \/ Contains(contentType, <<"x", "-", "x", "z">>) THEN "xz"
        ELSE IF Contains(contentType, <<"g", "z", "i", "p">>) THEN "gz"
        ELSE IF Contains(contentType, <<"z", "i", "p">>) THEN "zip"
        ELSE ""

\* the files of one call's temp directory: the download and, when the download
\* is compressed, the decompressed output
TmpNames == {"download", "output"}
\* names os.MkdirTemp can give a directory; 0 stands for no directory
TmpDirs == 1 .. 3

NoTmp == [n \in TmpNames |-> NoFile]

\* what the server's body holds on disk before decompression
Body(u) == IF u.packed = "" THEN u.image ELSE Packed

\* where each step of DownloadImage can fail
\* ("timeout": the deadline of ctx passes while io.Copy reads the body; the
\* request carries ctx, so the read returns an error)
DownloadOutcomes ==
    {"mktemp", "request", "status", "create", "copy", "timeout",
     "decompress_open", "decompress_copy", "hash", "io_ok"}

\* DownloadImage that returns the mismatch error without os.Remove(finalPath)
DownloadImage_KeepCorrupt(u, expected, o) ==
    LET compression == detectCompression(u.suffix, u.ctype)
        Fail(tmp) == [err |-> TRUE, Path |-> NoPath, SHA256 |-> "", tmp |-> tmp,
                      hashed |-> ""]
        downloaded == [NoTmp EXCEPT !["download"] = Body(u)]
    IN  IF o \in {"mktemp", "request", "status", "create"} THEN Fail(NoTmp)
        ELSE IF o \in {"copy", "timeout"}
            THEN Fail([NoTmp EXCEPT !["download"] = Partial])
        ELSE IF compression # "" /\ (o = "decompress_open" \/ compression # u.packed)
            THEN Fail(downloaded)
        ELSE IF compression # "" /\ o = "decompress_copy"
            THEN Fail([downloaded EXCEPT !["output"] = Partial])
        ELSE
            LET finalName == IF compression # "" THEN "output" ELSE "download"
                decompressed ==
                    IF compression # ""
                    THEN [NoTmp EXCEPT !["output"] = u.image]
                    ELSE downloaded
                sha256Hash == calculateSHA256(decompressed[finalName])
            IN  IF o = "hash" THEN Fail(decompressed)
                ELSE IF expected # "" /\ sha256Hash # expected
                    THEN [Fail(decompressed) EXCEPT !.hashed = sha256Hash]
                ELSE [err |-> FALSE, Path |-> TmpPath(finalName),
                      SHA256 |-> sha256Hash, tmp |-> decompressed,
                      hashed |-> sha256Hash]

\* DownloadImage(ctx, url, &DownloadOptions{ExpectedSHA256: expected}) when the
\* environment lets it get as far as o: the error, the result, the files it
\* leaves in the temp directory, and the hash it computed (if it got there)
DownloadImage(u, expected, o) ==
    LET compression == detectCompression(u.suffix, u.ctype)
        Fail(tmp) == [err |-> TRUE, Path |-> NoPath, SHA256 |-> "", tmp |-> tmp,
                      hashed |-> ""]
        downloaded == [NoTmp EXCEPT !["download"] = Body(u)]
    IN  IF o \in {"mktemp", "request", "status", "create"} THEN Fail(NoTmp)
        ELSE IF o \in {"copy", "timeout"}
            THEN Fail([NoTmp EXCEPT !["download"] = Partial])
        ELSE IF compression # "" /\ (o = "decompress_open" \/ compression # u.packed)
            THEN Fail(downloaded)
        ELSE IF compression # "" /\ o = "decompress_copy"
            THEN Fail([downloaded EXCEPT !["output"] = Partial])
        ELSE
            LET finalName == IF compression # "" THEN "output" ELSE "download"
                decompressed ==
                    IF compression # ""
                    THEN [NoTmp EXCEPT !["output"] = u.image]
                    ELSE downloaded
                sha256Hash == calculateSHA256(decompressed[finalName])
            IN  IF o = "hash" THEN Fail(decompressed)
                ELSE IF expected # "" /\ sha256Hash # expected
                    THEN [Fail([decompressed EXCEPT ![finalName] = NoFile])
                            EXCEPT !.hashed = sha256Hash]
                ELSE [err |-> FALSE, Path |-> TmpPath(finalName),
                      SHA256 |-> sha256Hash, tmp |-> decompressed,
                      hashed |-> sha256Hash]

----------------------------------------------------------------------------
(* download.go, lines 67-110: the files DownloadImage handles, by name *)

\* file names a URL can end in, each with the compression its suffix stands
\* for ("" when it has none of .xz, .gz, .gzip, .zip, in any letter case)
FetchURLs == {
    [name |-> <<"a", ".", "i", "m", "g">>,
     ext |-> ""],
    [name |-> <<"a", ".", "x", "z">>,
     ext |-> "xz"],
    [name |-> <<"a", ".", "X", "Z">>,
     ext |-> "xz"],
    [name |-> <<"a", ".", "i", "m", "g", ".", "x", "z">>,
     ext |-> "xz"],
    [name |-> <<"a", ".", "g", "z">>,
     ext |-> "gz"],
    [name |-> <<"a", ".", "g", "z", "i", "p">>,
     ext |-> "gz"],
    [name |-> <<"a", ".", "t", "a", "r", ".", "G", "Z">>,
     ext |-> "gz"],
    [name |-> <<"a", ".", "z", "i", "p">>,
     ext |-> "zip"],
    [name |-> <<"a", ".", "Z", "i", "p">>,
     ext |-> "zip"],
    [name |-> <<"a", "x", "z">>,
     ext |-> ""],
    [name |-> <<"a", ".", "x", "z", ".", "i", "m", "g">>,
     ext |-> ""],
    [name |-> <<"a", ".", "g", "z", "?", "x">>,
     ext |-> ""] }

\* Content-Type values, each with the compression it names
ContentTypes == {
    [value |-> <<>>,
     kind |-> ""],
    [value |-> <<"a", "p", "p", "l", "i", "c", "a", "t", "i", "o", "n", "/", "o", "c", "t", "e", "t", "-", "s", "t", "r", "e", "a", "m">>,
     kind |-> ""],
    [value |-> <<"a", "p", "p", "l", "i", "c", "a", "t", "i", "o", "n", "/", "x", "-", "x", "z">>,
     kind |-> "xz"],
    [value |-> <<"a", "p", "p", "l", "i", "c", "a", "t", "i", "o", "n", "/", "g", "z", "i", "p">>,
     kind |-> "gz"],
    [value |-> <<"a", "p", "p", "l", "i", "c", "a", "t", "i", "o", "n", "/", "x", "-", "g", "z", "i", "p">>,
     kind |-> "gz"],
    [value |-> <<"a", "p", "p", "l", "i", "c", "a", "t", "i", "o", "n", "/", "z", "i", "p">>,
     kind |-> "zip"],
    [value |-> <<"A", "p", "p", "l", "i", "c", "a", "t", "i", "o", "n", "/", "G", "Z", "I", "P">>,
     kind |-> "gz"] }

Compressions == {"", "xz", "gz", "zip"}
FetchImages == {"imgA", "imgB"}

\* the bytes of image x in a container of each kind (a zip holds one file)
Pack == [k \in Compressions \ {""} |-> [x \in FetchImages |->
            CASE k = "xz" /\ x = "imgA" -> "xz(imgA)"
              [] k = "xz" -> "xz(imgB)"
              [] k = "gz" /\ x = "imgA" -> "gz(imgA)"
              [] k = "gz" -> "gz(imgB)"
              [] k = "zip" /\ x = "imgA" -> "zipA"
              [] OTHER -> "zipB"]]

\* what a server can send for image x: x itself, x in a container, a zip
\* archive without entries, a zip archive with x first and another file after
Containers == Compressions \cup {"zip0", "zip2"}
Served(kind, x) ==
    CASE kind = "" -> x
      [] kind = "zip0" -> "zip0"
      [] kind = "zip2" -> IF x = "imgA" THEN "zipAB" ELSE "zipBA"
      [] OTHER -> Pack[kind][x]

\* a decoder of kind k reading bytes c: the image inside, or an error when c
\* is not a container of that kind
Decode(k, c) ==
    IF \E x \in FetchImages : Pack[k][x] = c
    THEN [ok |-> TRUE, data |-> CHOOSE x \in FetchImages : Pack[k][x] = c]
    ELSE [ok |-> FALSE, data |-> NoFile]

decompressXZ(c) == Decode("xz", c)
decompressGzip(c) == Decode("gz", c)

\* zip archives by their bytes: the entries each holds, in order
ZipFiles == [
    zip0 |-> << >>,
    zipA |-> <<"imgA">>,
    zipB |-> <<"imgB">>,
    zipAB |-> <<"imgA", "imgB">>,
    zipBA |-> <<"imgB", "imgA">>]

\* an extraction that takes the archive's last entry
decompressZip_Last(c) ==
    IF c \notin DOMAIN ZipFiles \/ ZipFiles[c] = << >>
    THEN [ok |-> FALSE, data |-> NoFile]
    ELSE [ok |-> TRUE, data |-> ZipFiles[c][Len(ZipFiles[c])]]

\* decompressZip: zip.OpenReader, an error for an archive without entries,
\* then reader.File[0]
decompressZip(c) ==
    IF c \notin DOMAIN ZipFiles THEN [ok |-> FALSE, data |-> NoFile]
    ELSE IF Len(ZipFiles[c]) = 0 THEN [ok |-> FALSE, data |-> NoFile]
    ELSE [ok |-> TRUE, data |-> ZipFiles[c][1]]

\* a dispatch that hands every download to the gzip decoder
decompress_AlwaysGzip(c, compression) == decompressGzip(c)

\* decompress: the switch on the compression kind
decompress(c, compression) ==
    CASE compression = "xz" -> decompressXZ(c)
      [] compression = "gz" -> decompressGzip(c)
      [] compression = "zip" -> decompressZip(c)
      [] OTHER -> [ok |-> FALSE, data |-> NoFile]

\* "." + compression
DotExt(compression) ==
    CASE compression = "xz" -> <<".", "x", "z">>
      [] compression = "gz" -> <<".", "g", "z">>
      [] OTHER -> <<".", "z", "i", "p">>

\* an output path that is the compressed file's own path when no suffix is
\* trimmed
outputPath_NoFallback(path, compression) ==
    TrimSuffix(path, DotExt(compression))

\* decompress: where the output goes
outputPath(path, compression) ==
    LET trimmed == TrimSuffix(path, DotExt(compression))
    IN  IF trimmed = path THEN path \o <<".", "d", "e", "c", "o", "m", "p", "r", "e", "s", "s", "e", "d">>
        ELSE trimmed

\* files of the temp directory are pairs <<name, bytes>>
WriteFile(files, name, c) == {e \in files : e[1] # name} \cup {<<name, c>>}
RemoveFile(files, name) == {e \in files : e[1] # name}
Exists(files, name) == \E e \in files : e[1] = name
ReadFile(files, name) == (CHOOSE e \in files : e[1] = name)[2]

IdleFetch == [
    pc |-> "idle",
    url |-> << >>,            \* the URL's file name
    ext |-> "",               \* the compression its suffix stands for
    contentType |-> << >>,    \* resp.Header.Get("Content-Type")
    named |-> "",             \* the compression the content type names
    kind |-> "",              \* the container the server really sends
    image |-> "imgA",         \* the image in it
    compression |-> "",       \* what detectCompression returned
    downloadPath |-> << >>,
    finalPath |-> << >>,
    files |-> {},
    decompressed |-> FALSE,   \* decompress returned without error
    err |-> "",               \* the step that returned an error, if any
    SHA256 |-> ""]

\* lines 67-82: detect the compression, save the body
FetchSave ==
    /\ fetch.pc = "save"
    /\ LET compression == detectCompression(fetch.url, fetch.contentType)
           body == Served(fetch.kind, fetch.image)
       IN  fetch' = [fetch EXCEPT
                !.compression = compression,
                !.downloadPath = fetch.url,
                !.finalPath = fetch.url,
                !.files = {<<fetch.url, body>>},
                !.pc = IF compression # "" THEN "decompress" ELSE "hash"]
    /\ UNCHANGED <<flashVars, devVars, maint>>

\* lines 85-93: decompress into a new file, then remove the compressed one
FetchDecompress ==
    /\ fetch.pc = "decompress"
    /\ LET out == outputPath(fetch.downloadPath, fetch.compression)
           r == decompress(ReadFile(fetch.files, fetch.downloadPath),
                           fetch.compression)
       IN  \E copyOK \in BOOLEAN :
            IF ~r.ok
            THEN fetch' = [fetch EXCEPT !.err = "reader", !.pc = "done"]
            ELSE IF ~copyOK
            THEN fetch' = [fetch EXCEPT
                    !.files = WriteFile(fetch.files, out, Partial),
                    !.err = "copy", !.pc = "done"]
            ELSE fetch' = [fetch EXCEPT
                    !.files = RemoveFile(WriteFile(fetch.files, out, r.data),
                                         fetch.downloadPath),
                    !.finalPath = out, !.decompressed = TRUE, !.pc = "hash"]
    /\ UNCHANGED <<flashVars, devVars, maint>>

\* lines 95-110: hash the final file
FetchHash ==
    /\ fetch.pc = "hash"
    /\ \E hashOK \in BOOLEAN :
        IF hashOK /\ Exists(fetch.files, fetch.finalPath)
        THEN fetch' = [fetch EXCEPT
                !.SHA256 = calculateSHA256(ReadFile(fetch.files, fetch.finalPath)),
                !.pc = "done"]
        ELSE fetch' = [fetch EXCEPT !.err = "hash", !.pc = "done"]
    /\ UNCHANGED <<flashVars, devVars, maint>>

NextFetch == FetchSave \/ FetchDecompress \/ FetchHash

----------------------------------------------------------------------------
(* cache.go *)

Hit(path) == [path |-> path, err |-> FALSE]
Miss == [path |-> NoPath, err |-> FALSE]
Err == [path |-> NoPath, err |-> TRUE]

\* getLocalCachePath that stats <sha256> instead of <sha256>.img
getLocalCachePath_WrongName(sha256, statOK) ==
    IF statOK THEN Miss ELSE Err

\* getLocalCachePath: os.Stat of <localDir>/<sha256>.img; statOK is FALSE when
\* Stat fails for a reason other than the file not existing
getLocalCachePath(sha256, statOK) ==
    IF statOK /\ localCache[sha256] # NoFile THEN Hit(LocalCachePath(sha256))
    ELSE IF statOK THEN Miss
    ELSE Err

\* getBMCCachePath: ListDirectory of /tmp/tpi-cache; it fails when the
\* directory does not exist (dirExists = FALSE) and when the transport fails
\* (listOK = FALSE)
getBMCCachePath(sha256, dirExists, listOK) ==
    IF ~(dirExists /\ listOK) THEN Miss
    ELSE IF bmcCache[sha256] # NoFile THEN Hit(BMCCachePath(sha256))
    ELSE Miss

\* GetCachedImagePath(sha256, location); ioOK is the outcome of the one
\* backend call it makes
GetCachedImagePath(sha256, location, ioOK) ==
    CASE location = CacheLocationLocal -> getLocalCachePath(sha256, ioOK)
      [] location = CacheLocationBMC -> getBMCCachePath(sha256, bmcDir, ioOK)
      [] location = CacheLocationNone -> Miss
      [] OTHER -> Err

----------------------------------------------------------------------------
(* node_flash/resource.go: one flow *)

PCs == {"idle", "NewImageCache", "GetCachedImagePath", "DownloadImage",
        "LocalSource", "CacheImage", "CacheOpen", "CacheCopy", "Flash", "done"}


\* calls of the BMC client made by the cache
bmcCacheDir == <<"bmccache", "">>
MkdirCmd == "mkdir -p /tmp/tpi-cache"
RmCmd == "rm -rf /tmp/tpi-cache"
ExecuteCommand(cmd) == [call |-> "ExecuteCommand", cmd |-> cmd, path |-> NoPath]
ListDirectory(dir) == [call |-> "ListDirectory", cmd |-> "", path |-> dir]
UploadFile(remotePath) == [call |-> "UploadFile", cmd |-> "", path |-> remotePath]

\* nothing written to resp.State, no diagnostic
NoResp == [set |-> FALSE, FlashStatus |-> "", SHA256 |-> "",
           LastFlashed |-> "", diag |-> FALSE]

IdleFlow == [
    pc |-> "idle",
    prev |-> "",              \* the hash the previous run dispatched a flash for
    fresh |-> FALSE,          \* no local entry named plan.SHA256 when the run began
    again |-> FALSE,          \* the previous run had the same plan, began fresh,
                              \* downloaded and stored its download
    node |-> 1,               \* plan.Node
    ImageURL |-> NoURL,       \* plan.ImageURL
    ImagePath |-> "",         \* plan.ImagePath
    SHA256 |-> "",            \* plan.SHA256
    Cache |-> CacheLocationNone,
    imagePath |-> NoPath,
    sha256 |-> "",
    tempFile |-> NoPath,
    tmpDir |-> 0,             \* the temp directory os.MkdirTemp made for the
                              \* call, while the call runs
    tmp |-> NoTmp,            \* the files of this call's temp directory
    user |-> NoFile,          \* what the file at plan.ImagePath holds
    touched |-> FALSE,        \* the call made an operation on a cache backend
    lookups |-> 0,            \* calls of GetCachedImagePath
    remote |-> <<>>,          \* the calls the cache made on the BMC client
    mkdirFailed |-> FALSE,    \* the put's mkdir -p returned an error
    hit |-> FALSE,            \* the pre-fetch lookup returned a path
    lookupErr |-> FALSE,      \* the pre-fetch lookup returned an error
    lookupFailed |-> FALSE,   \* the lookup's backend call failed for a reason
                              \* other than the directory or file not existing
    seen |-> NoFile,          \* content of the entry when the lookup, or the
                              \* put's already-cached check, returned its path
    timeout |-> FALSE,        \* ctx's deadline expired during the download
    downloads |-> 0,          \* calls of DownloadImage
    hashed |-> "",            \* the hash DownloadImage computed
    transfers |-> 0,          \* copies and uploads begun by CacheImage
    puts |-> 0,               \* calls of CacheImage
    putHad |-> FALSE,         \* the entry existed when CacheImage was called
    putSaw |-> NoFile,        \* and what it held then
    putRet |-> NoPath,        \* the path CacheImage returned
    putErr |-> FALSE,         \* CacheImage returned an error
    flashes |-> <<>>,         \* the flash operations dispatched
    outcome |-> "none",       \* "ok", "err" or "panic" once the call is over
    phase |-> "",             \* where a failed call failed
    result |-> "",            \* FlashResult.SHA256
    resp |-> NoResp]          \* what Create/Update made of the call's end

\* node numbers of the board (the schema's Between(1, 4))
BoardNodes == {1, 2, 3, 4}
UsbModes == {"host", "device", "flash"}
Ops == {"Create", "Update"}

IdlePowerCall == [
    pc |-> "idle",
    op |-> "Create",
    node |-> 1,               \* plan.Node
    desiredState |-> FALSE,   \* plan.PowerOn
    currentState |-> FALSE,   \* status[node], once read
    was |-> FALSE,            \* the node's power when the call began
    reads |-> 0,              \* calls of PowerStatus by Create / Update
    cmds |-> <<>>,            \* PowerOn / PowerOff commands issued
    err |-> "",               \* the diagnostic the call added, if any
    saved |-> FALSE,          \* resp.State.Set was reached
    before |-> [n \in BoardNodes |-> FALSE],
                              \* the board's power states when the call began
    PowerOn |-> FALSE]        \* state.PowerOn, as Create, Update or Read set it

IdleUsbCall == [
    pc |-> "idle",
    op |-> "Create",
    node |-> 1,               \* plan.Node
    mode |-> "host",          \* plan.Mode
    bmc |-> FALSE,            \* plan.BMC
    was |-> [mode |-> "host", node |-> 1, bmc |-> FALSE],
                              \* the board's USB configuration when the call began
    reads |-> 0,              \* calls of UsbGetStatus
    cmds |-> <<>>,            \* UsbSet* commands issued
    err |-> "",
    saved |-> FALSE]

InitFlash ==
    /\ localDir = FALSE
    /\ localCache = [h \in Names |-> NoFile]
    /\ bmcDir = FALSE
    /\ bmcCache = [h \in Names |-> NoFile]
    /\ flow = [f \in Flows |-> [IdleFlow EXCEPT !.node = f]]

\* the answer of one backend to a lookup or put: the path returned, whether
\* an error was returned, whether a copy or upload was made
NoAnswer == [path |-> NoPath, err |-> FALSE, transfer |-> FALSE]

\* a location CacheLocation* does not name
UnknownLocation == "s3"

IdleMaint == [
    op |-> "none",            \* the method of ImageCache that was called
    cmd |-> "",               \* the command it had the BMC execute
    location |-> CacheLocationNone,
    path |-> NoPath,          \* localPath handed to CacheImage
    ret |-> NoPath,           \* the path returned
    err |-> FALSE,            \* an error was returned
    had |-> FALSE,            \* the backend held an entry before the call
    found |-> {},             \* hashes a lookup finds right after the call
    kept |-> TRUE,            \* backends the call is not about are as before
    hash |-> "",              \* the hash a lookup or put was called with
    local |-> NoAnswer,       \* what the local backend answered
    bmc |-> NoAnswer,         \* what the BMC backend answered
    calls |-> << >>,          \* client calls made by a Read or Delete
    stored |-> NoResp,        \* the state a Read was given
    state |-> NoResp]         \* the state a Read returned

InitApi ==
    /\ fetch = IdleFetch
    /\ maint = IdleMaint

Init ==
    /\ InitFlash
    /\ power = [n \in BoardNodes |-> FALSE]
    /\ usb = [mode |-> "host", node |-> 1, bmc |-> FALSE]
    /\ powerCall = IdlePowerCall
    /\ usbCall = IdleUsbCall
    /\ InitApi

\* the content of the file at path p, as flow record fl sees it
FileContent(fl, p) ==
    CASE p[1] = "tmp" -> fl.tmp[p[2]]
      [] p[1] = "user" -> fl.user
      [] p[1] = "localcache" -> localCache[p[2]]
      [] p[1] = "bmccache" -> bmcCache[p[2]]
      [] OTHER -> NoFile

\* the end of Create and of Update: on an error a diagnostic and the plan
\* with flash_status failed; on a result the plan with sha256, flash_status
\* success and last_flashed now; a panic leaves the handler before either
Respond(fl, outcome) ==
    CASE outcome = "ok" ->
            [set |-> TRUE, FlashStatus |-> "success", SHA256 |-> fl.sha256,
             LastFlashed |-> "now", diag |-> FALSE]
      [] outcome = "err" ->
            [set |-> TRUE, FlashStatus |-> "failed", SHA256 |-> fl.SHA256,
             LastFlashed |-> "plan", diag |-> TRUE]
      [] OTHER -> NoResp

\* the call returns (or panics); Create and Update record state only then
Return(fl, outcome, phase) ==
    [fl EXCEPT !.pc = "done", !.outcome = outcome, !.phase = phase,
               !.result = IF outcome = "ok" THEN fl.sha256 ELSE "",
               !.tmpDir = 0,
               !.resp = Respond(fl, outcome)]

Set(f, fl) == flow' = [flow EXCEPT ![f] = fl]

\* Create / Update: Terraform hands a plan to executeFlash. The plan's source
\* is drawn from urls and paths; trackPrev and trackPlan say which facts about
\* the previous run are remembered (history only: no step reads them)
StartPlan(f, urls, paths, trackPrev, trackPlan) ==
    /\ flow[f].pc \in {"idle", "done"}
    /\ \E url \in urls, path \in paths, sha \in ShaInputs, cache \in CacheLocations :
        \* the schema's ExactlyOneOf(image_url, image_path)
        /\ (url = NoURL) # (path = "")
        /\ Set(f, [IdleFlow EXCEPT
                !.pc = "NewImageCache",
                !.prev = IF trackPrev /\ flow[f].flashes # <<>>
                         THEN flow[f].sha256 ELSE "",
                !.fresh = trackPlan /\ sha # "" /\ localCache[sha] = NoFile,
                !.again = /\ trackPlan
                          /\ flow[f].pc = "done"
                          /\ flow[f].ImageURL = url /\ flow[f].ImagePath = path
                          /\ flow[f].SHA256 = sha /\ flow[f].Cache = cache
                          /\ flow[f].fresh /\ flow[f].downloads = 1
                          /\ flow[f].puts = 1 /\ ~flow[f].putErr,
                !.user = IF path = "" THEN NoFile ELSE LocalFiles[path],
                !.node = f, !.ImageURL = url, !.ImagePath = path,
                !.SHA256 = sha, !.Cache = cache])
    /\ UNCHANGED <<localDir, localCache, bmcDir, bmcCache>>
    /\ UNCHANGED <<devVars, apiVars>>

Start(f) == StartPlan(f, URLs \cup {NoURL}, ImagePaths \cup {""}, FALSE, FALSE)

StartRerun(f) == StartPlan(f, URLs \cup {NoURL}, ImagePaths \cup {""}, TRUE, FALSE)

StartRemote(f) == StartPlan(f, URLs, {""}, FALSE, TRUE)

\* where executeFlash goes once the cache manager exists
AfterInit(fl) ==
    IF fl.ImageURL # NoURL
    THEN IF fl.SHA256 # "" THEN "GetCachedImagePath" ELSE "DownloadImage"
    ELSE "LocalSource"

\* client.NewImageCache: MkdirAll of the local cache directory
NewImageCache(f) ==
    /\ flow[f].pc = "NewImageCache"
    /\ \E ok \in BOOLEAN :
        IF ok
        THEN /\ localDir' = TRUE
             /\ Set(f, [flow[f] EXCEPT !.pc = AfterInit(flow[f]), !.touched = TRUE])
        ELSE /\ Set(f, Return([flow[f] EXCEPT !.touched = TRUE], "err", "cache"))
             /\ UNCHANGED localDir
    /\ UNCHANGED <<localCache, bmcDir, bmcCache>>
    /\ UNCHANGED <<devVars, apiVars>>

\* a lookup whose error ends the call
AfterLookup_ReturnErr(fl, r) ==
    IF r.err THEN Return([fl EXCEPT !.lookupErr = TRUE], "err", "lookup")
    ELSE IF r.path # NoPath
        THEN [fl EXCEPT !.pc = "Flash", !.hit = TRUE,
                        !.imagePath = r.path, !.sha256 = fl.SHA256]
    ELSE [fl EXCEPT !.pc = "DownloadImage"]

\* lines 323-336: what executeFlash does with the lookup's result
AfterLookup(fl, r) ==
    IF r.err THEN [fl EXCEPT !.pc = "DownloadImage", !.lookupErr = TRUE]
    ELSE IF r.path # NoPath
        THEN [fl EXCEPT !.pc = "Flash", !.hit = TRUE,
                        !.imagePath = r.path, !.sha256 = fl.SHA256]
    ELSE [fl EXCEPT !.pc = "DownloadImage"]

LookupStep(f) ==
    /\ flow[f].pc = "GetCachedImagePath"
    /\ \E ioOK \in BOOLEAN :
        LET r == GetCachedImagePath(flow[f].SHA256, flow[f].Cache, ioOK)
            fl == [flow[f] EXCEPT
                    !.lookups = @ + 1,
                    !.remote = IF flow[f].Cache = CacheLocationBMC
                               THEN @ \o <<ListDirectory(bmcCacheDir)>> ELSE @,
                    !.lookupFailed = ~ioOK /\ flow[f].Cache # CacheLocationNone,
                    !.seen = IF r.path # NoPath THEN FileContent(flow[f], r.path)
                             ELSE NoFile]
        IN  Set(f, AfterLookup(fl, r))
    /\ UNCHANGED <<localDir, localCache, bmcDir, bmcCache>>
    /\ UNCHANGED <<devVars, apiVars>>

\* lines 339-363: the download and what follows it
AfterDownload(fl, res) ==
    IF res.err
    THEN Return([fl EXCEPT !.tmp = res.tmp, !.downloads = @ + 1,
                           !.hashed = res.hashed], "err", "download")
    ELSE [fl EXCEPT !.tmp = res.tmp, !.downloads = @ + 1, !.hashed = res.hashed,
                    !.imagePath = res.Path, !.sha256 = res.SHA256,
                    !.tempFile = res.Path,
                    !.pc = IF fl.Cache # CacheLocationNone THEN "CacheImage" ELSE "Flash"]

\* a temp directory that is the same for every call
MkdirTemp_Fixed(existing) == 1

\* os.MkdirTemp("", "turingpi-download-*"): a directory that did not exist
\* (existing: the directories of the calls that are running)
MkdirTemp(existing) == CHOOSE d \in TmpDirs : d \notin existing

DownloadStep(f) ==
    /\ flow[f].pc = "DownloadImage"
    /\ \E o \in DownloadOutcomes :
        Set(f, AfterDownload([flow[f] EXCEPT
                                !.timeout = (o = "timeout"),
                                !.tmpDir = IF o = "mktemp" THEN 0
                                           ELSE MkdirTemp({flow[g].tmpDir :
                                                           g \in Flows \ {f}})],
                             DownloadImage(flow[f].ImageURL, flow[f].SHA256, o)))
    /\ UNCHANGED <<localDir, localCache, bmcDir, bmcCache>>
    /\ UNCHANGED <<devVars, apiVars>>

\* lines 365-377: a local file, hashed only when the plan carries no sha256
LocalSource(f) ==
    /\ flow[f].pc = "LocalSource"
    /\ LET fl == [flow[f] EXCEPT !.imagePath = UserPath(flow[f].ImagePath)]
           next == IF fl.Cache # CacheLocationNone THEN "CacheImage" ELSE "Flash"
       IN  IF fl.SHA256 # ""
           THEN Set(f, [fl EXCEPT !.sha256 = fl.SHA256, !.pc = next])
           ELSE \E ok \in BOOLEAN :
                IF ok
                THEN Set(f, [fl EXCEPT
                        !.sha256 = calculateSHA256(FileContent(fl, fl.imagePath)),
                        !.pc = next])
                ELSE Set(f, Return(fl, "err", "sha256"))
    /\ UNCHANGED <<localDir, localCache, bmcDir, bmcCache>>
    /\ UNCHANGED <<devVars, apiVars>>

\* lines 350-362 and 379-392: what executeFlash does with CacheImage's result;
\* only the local-file branch adopts the cached path
AfterCache(fl, ret, err) ==
    LET base == [fl EXCEPT !.putRet = ret, !.putErr = err, !.pc = "Flash"]
    IN  IF fl.ImageURL = NoURL /\ ~err
        THEN [base EXCEPT !.imagePath = ret]
        ELSE base

\* a put that lists the directory before it has made it
cacheToBMCCalls_ListFirst(mkdirOK) ==
    <<ListDirectory(bmcCacheDir), ExecuteCommand(MkdirCmd)>>

\* cacheToBMC up to its already-cached check: mkdir -p, then, unless that
\* failed, the listing of getBMCCachePath
cacheToBMCCalls(mkdirOK) ==
    IF mkdirOK THEN <<ExecuteCommand(MkdirCmd), ListDirectory(bmcCacheDir)>>
    ELSE <<ExecuteCommand(MkdirCmd)>>

\* CacheImage, first part: the already-cached check of cacheLocally (os.Stat)
\* and of cacheToBMC (mkdir -p, then getBMCCachePath)
CacheImage(f) ==
    /\ flow[f].pc = "CacheImage"
    /\ LET h == flow[f].sha256
           fl == [flow[f] EXCEPT
                    !.puts = @ + 1,
                    !.putSaw = IF flow[f].Cache = CacheLocationLocal
                               THEN localCache[h] ELSE bmcCache[h]]
       IN  IF fl.Cache = CacheLocationLocal
           THEN /\ \E statOK \in BOOLEAN :
                    IF statOK /\ localCache[h] # NoFile
                    THEN Set(f, AfterCache([fl EXCEPT !.putHad = TRUE,
                                                      !.seen = localCache[h]],
                                           LocalCachePath(h), FALSE))
                    ELSE Set(f, [fl EXCEPT !.pc = "CacheOpen",
                                           !.putHad = localCache[h] # NoFile])
                /\ UNCHANGED bmcDir
           ELSE \E mkdirOK \in BOOLEAN, listOK \in BOOLEAN :
                    LET had == bmcDir /\ bmcCache[h] # NoFile
                        existing == getBMCCachePath(h, TRUE, listOK)
                        flb == [fl EXCEPT !.putHad = had,
                                          !.remote = @ \o cacheToBMCCalls(mkdirOK),
                                          !.mkdirFailed = ~mkdirOK]
                    IN  IF ~mkdirOK
                        THEN /\ Set(f, AfterCache(flb, NoPath, TRUE))
                             /\ UNCHANGED bmcDir
                        ELSE /\ bmcDir' = TRUE
                             /\ IF existing.path # NoPath
                                THEN Set(f, AfterCache([flb EXCEPT !.seen = bmcCache[h]],
                                                       existing.path, FALSE))
                                ELSE Set(f, [flb EXCEPT !.pc = "CacheOpen"])
    /\ UNCHANGED <<localDir, localCache, bmcCache>>
    /\ UNCHANGED <<devVars, apiVars>>

\* CacheImage, second part: os.Open and os.Create of cacheLocally (Create
\* truncates), or the start of UploadFile, which writes to the final name
CacheOpen(f) ==
    /\ flow[f].pc = "CacheOpen"
    /\ LET h == flow[f].sha256
           fl == [flow[f] EXCEPT
                    !.remote = IF flow[f].Cache = CacheLocationBMC
                               THEN @ \o <<UploadFile(BMCCachePath(h))>> ELSE @]
       IN  \E ok \in BOOLEAN :
            IF ~ok
            THEN /\ Set(f, AfterCache(fl, NoPath, TRUE))
                 /\ UNCHANGED <<localCache, bmcCache>>
            ELSE /\ Set(f, [fl EXCEPT !.pc = "CacheCopy", !.transfers = @ + 1])
                 /\ IF fl.Cache = CacheLocationLocal
                    THEN /\ localCache' = [localCache EXCEPT ![h] = Partial]
                         /\ UNCHANGED bmcCache
                    ELSE /\ bmcCache' = [bmcCache EXCEPT ![h] = Partial]
                         /\ UNCHANGED localCache
    /\ UNCHANGED <<localDir, bmcDir>>
    /\ UNCHANGED <<devVars, apiVars>>

\* how a transfer can end: complete, failed with the destination removed,
\* failed with a truncated destination left behind
CopyOutcomes == {"ok", "removed", "truncated"}

\* what the destination holds once the transfer has ended
Written(o, content) ==
    CASE o = "ok" -> content
      [] o = "removed" -> NoFile
      [] OTHER -> Partial

\* CacheImage, third part: io.Copy of cacheLocally (os.Remove of the
\* destination when it fails), or the rest of UploadFile
CacheCopy(f) ==
    /\ flow[f].pc = "CacheCopy"
    /\ LET fl == flow[f]
           h == fl.sha256
           content == FileContent(fl, fl.imagePath)
       IN  \E o \in CopyOutcomes :
            /\ fl.Cache = CacheLocationLocal => o # "truncated"
            /\ LET written == Written(o, content)
                   dest == IF fl.Cache = CacheLocationLocal
                           THEN LocalCachePath(h) ELSE BMCCachePath(h)
               IN  /\ IF fl.Cache = CacheLocationLocal
                      THEN /\ localCache' = [localCache EXCEPT ![h] = written]
                           /\ UNCHANGED bmcCache
                      ELSE /\ bmcCache' = [bmcCache EXCEPT ![h] = written]
                           /\ UNCHANGED localCache
                   /\ Set(f, IF o = "ok" THEN AfterCache(fl, dest, FALSE)
                             ELSE AfterCache(fl, NoPath, TRUE))
    /\ UNCHANGED <<localDir, bmcDir>>
    /\ UNCHANGED <<devVars, apiVars>>

\* os.Remove of a file of the provider's machine
RemovePath(fl, p) ==
    CASE p[1] = "tmp" -> [fl EXCEPT !.tmp[p[2]] = NoFile]
      [] p[1] = "user" -> [fl EXCEPT !.user = NoFile]
      [] OTHER -> fl

\* a cleanup that removes the image it was given once the call is over
Cleanup_RemoveImage(fl) == RemovePath(fl, fl.imagePath)

\* lines 395-400: the deferred cleanup
Cleanup(fl) ==
    IF fl.tempFile # NoPath /\ fl.tempFile # fl.imagePath
    THEN RemovePath(fl, fl.tempFile)
    ELSE fl

\* the if/else of lines 410-419 as two independent calls
FlashOps_Both(fl) ==
    << [kind |-> "FlashNodeLocal", node |-> fl.node, path |-> fl.imagePath,
        content |-> IF fl.imagePath[1] = "bmccache"
                    THEN bmcCache[fl.imagePath[2]] ELSE NoFile],
       [kind |-> "FlashNode", node |-> fl.node, path |-> fl.imagePath,
        content |-> IF fl.imagePath[1] = "bmccache"
                    THEN NoFile ELSE FileContent(fl, fl.imagePath)] >>

\* a dispatch that is skipped when the previous run flashed the same hash
FlashOps_SkipSame(fl) ==
    IF fl.prev # "" /\ fl.prev = fl.sha256 THEN << >>
    ELSE IF fl.Cache = CacheLocationBMC
    THEN << [kind |-> "FlashNodeLocal", node |-> fl.node, path |-> fl.imagePath,
             content |-> IF fl.imagePath[1] = "bmccache"
                         THEN bmcCache[fl.imagePath[2]] ELSE NoFile] >>
    ELSE << [kind |-> "FlashNode", node |-> fl.node, path |-> fl.imagePath,
             content |-> IF fl.imagePath[1] = "bmccache"
                         THEN NoFile ELSE FileContent(fl, fl.imagePath)] >>

\* lines 409-419: the flash operation executeFlash dispatches, with the
\* content the operation finds at the path on the file system it reads
FlashOps(fl) ==
    IF fl.Cache = CacheLocationBMC
    THEN << [kind |-> "FlashNodeLocal", node |-> fl.node, path |-> fl.imagePath,
             content |-> IF fl.imagePath[1] = "bmccache"
                         THEN bmcCache[fl.imagePath[2]] ELSE NoFile] >>
    ELSE << [kind |-> "FlashNode", node |-> fl.node, path |-> fl.imagePath,
             content |-> IF fl.imagePath[1] = "bmccache"
                         THEN NoFile ELSE FileContent(fl, fl.imagePath)] >>

\* lines 395-428: the log line's sha256[:16], the dispatch, the return
Flash(f) ==
    /\ flow[f].pc = "Flash"
    /\ LET fl == flow[f]
       IN  IF HashLen(fl.sha256) < 16
           THEN Set(f, Return(Cleanup(fl), "panic", "log"))
           ELSE \E ok \in BOOLEAN :
                LET sent == [fl EXCEPT !.flashes = @ \o FlashOps(fl)]
                IN  Set(f, IF ok THEN Return(Cleanup(sent), "ok", "")
                           ELSE Return(Cleanup(sent), "err", "flash"))
    /\ UNCHANGED <<localDir, localCache, bmcDir, bmcCache>>
    /\ UNCHANGED <<devVars, apiVars>>

Run(f) ==
    \/ NewImageCache(f)
    \/ LookupStep(f)
    \/ DownloadStep(f)
    \/ LocalSource(f)
    \/ CacheImage(f)
    \/ CacheOpen(f)
    \/ CacheCopy(f)
    \/ Flash(f)

Next == \E f \in SeqFlows : Start(f) \/ Run(f)

Spec == Init /\ [][Next]_vars

\* the same program, remembering across runs what the previous run flashed
NextRerun == \E f \in SeqFlows : StartRerun(f) \/ Run(f)

SpecRerun == Init /\ [][NextRerun]_vars

\* provisioning from URLs only, starting on empty caches, remembering whether a
\* run repeats the plan of the run before it
RunRemote(f) ==
    \/ StartRemote(f)
    \/ NewImageCache(f)
    \/ LookupStep(f)
    \/ DownloadStep(f)
    \/ CacheImage(f)
    \/ CacheOpen(f)
    \/ CacheCopy(f)
    \/ Flash(f)

NextRemote == \E f \in SeqFlows : RunRemote(f)

SpecRemote == Init /\ [][NextRemote]_vars

\* Terraform applies resources in parallel: two node_flash resources whose
\* plans name the same image (a URL or a local file, sha256 = hA) and a cache
StartConc(f) ==
    /\ StartPlan(f, {u \in URLs : u.packed = ""} \cup {NoURL},
                 ImagePaths \cup {""}, FALSE, FALSE)
    /\ flow'[f].SHA256 = "hA"
    /\ flow'[f].Cache # CacheLocationNone

NextConc == \E f \in Flows : StartConc(f) \/ Run(f)

SpecConc == Init /\ [][NextConc]_vars

----------------------------------------------------------------------------
(* node_power/resource.go and node_usb/resource.go *)

\* Create / Update of node_power: Terraform hands over a plan
PowerStart ==
    /\ powerCall.pc \in {"idle", "done", "read"}
    /\ \E op \in Ops, node \in BoardNodes, desiredState \in BOOLEAN :
        powerCall' = [IdlePowerCall EXCEPT
                        !.pc = "PowerStatus", !.op = op, !.node = node,
                        !.desiredState = desiredState, !.was = power[node],
                        !.before = power, !.PowerOn = desiredState]
    /\ UNCHANGED <<power, usb, usbCall>>
    /\ UNCHANGED <<flashVars, apiVars>>

\* a call that sets the power state whatever the status it read
AfterPowerStatus_Always(call, status) ==
    [call EXCEPT !.currentState = status[call.node], !.reads = @ + 1, !.pc = "Set"]

\* "Only change if different": what the call does with the status it read
AfterPowerStatus(call, status) ==
    LET currentState == status[call.node]
    IN  IF currentState # call.desiredState
        THEN [call EXCEPT !.currentState = currentState, !.reads = @ + 1,
                          !.pc = "Set"]
        ELSE [call EXCEPT !.currentState = currentState, !.reads = @ + 1,
                          !.pc = "done", !.saved = TRUE]

\* r.client.PowerStatus(): the read that precedes any command
PowerStatus ==
    /\ powerCall.pc = "PowerStatus"
    /\ \E ok \in BOOLEAN :
        powerCall' = IF ok THEN AfterPowerStatus(powerCall, power)
                     ELSE [powerCall EXCEPT !.reads = @ + 1, !.pc = "done",
                                            !.err = "status"]
    /\ UNCHANGED <<power, usb, usbCall>>
    /\ UNCHANGED <<flashVars, apiVars>>

\* a call that only ever powers nodes on
PowerCmd_On(node, desiredState) == [kind |-> "PowerOn", node |-> node]

\* the command for a desired state
PowerCmd(node, desiredState) ==
    [kind |-> IF desiredState THEN "PowerOn" ELSE "PowerOff", node |-> node]

\* the board once it has carried out a command
BoardAfter(board, cmd) == [board EXCEPT ![cmd.node] = (cmd.kind = "PowerOn")]

\* r.client.PowerOn(node) / r.client.PowerOff(node)
PowerSet ==
    /\ powerCall.pc = "Set"
    /\ LET cmd == PowerCmd(powerCall.node, powerCall.desiredState)
           sent == [powerCall EXCEPT !.cmds = Append(@, cmd), !.pc = "done"]
       IN  \E ok \in BOOLEAN :
            IF ok
            THEN /\ power' = BoardAfter(power, cmd)
                 /\ powerCall' = [sent EXCEPT !.saved = TRUE]
            ELSE /\ UNCHANGED power
                 /\ powerCall' = [sent EXCEPT !.err = "set"]
    /\ UNCHANGED <<usb, usbCall>>
    /\ UNCHANGED <<flashVars, apiVars>>

\* Read of node_power, after a Create or Update that saved its state:
\* PowerStatus again, state.PowerOn = status[node]
PowerRead ==
    /\ powerCall.pc = "done" /\ powerCall.saved
    /\ \E ok \in BOOLEAN :
        powerCall' = IF ok
                     THEN [powerCall EXCEPT !.pc = "read",
                                            !.PowerOn = power[powerCall.node]]
                     ELSE [powerCall EXCEPT !.pc = "read", !.err = "status"]
    /\ UNCHANGED <<power, usb, usbCall>>
    /\ UNCHANGED <<flashVars, apiVars>>

NextPower == PowerStart \/ PowerStatus \/ PowerSet \/ PowerRead

\* node_power on a board in any power state
InitPower ==
    /\ InitFlash
    /\ power \in [BoardNodes -> BOOLEAN]
    /\ usb = [mode |-> "host", node |-> 1, bmc |-> FALSE]
    /\ powerCall = IdlePowerCall
    /\ usbCall = IdleUsbCall
    /\ InitApi

SpecPower == InitPower /\ [][NextPower]_vars

\* Create / Update of node_usb
UsbStart ==
    /\ usbCall.pc \in {"idle", "done"}
    /\ \E op \in Ops, node \in BoardNodes, mode \in UsbModes, bmc \in BOOLEAN :
        usbCall' = [IdleUsbCall EXCEPT
                        !.pc = "setUsbMode", !.op = op, !.node = node,
                        !.mode = mode, !.bmc = bmc, !.was = usb]
    /\ UNCHANGED <<power, usb, powerCall>>
    /\ UNCHANGED <<flashVars, apiVars>>

\* the configuration a plan asks for
Desired(call) == [mode |-> call.mode, node |-> call.node, bmc |-> call.bmc]

\* the client call setUsbMode makes for a mode
UsbCmd(node, mode, bmc) ==
    [kind |-> CASE mode = "host" -> "UsbSetHost"
                [] mode = "device" -> "UsbSetDevice"
                [] OTHER -> "UsbSetFlash",
     node |-> node, bmc |-> bmc]

\* a call that issues no command when the board is already as desired
UsbOps_SkipSame(call) ==
    IF call.was = Desired(call) THEN << >>
    ELSE << UsbCmd(call.node, call.mode, call.bmc) >>

\* the commands one Create / Update issues: setUsbMode, unconditionally
UsbOps(call) == << UsbCmd(call.node, call.mode, call.bmc) >>

\* setUsbMode(node, mode, bmc) and the end of Create / Update
setUsbMode ==
    /\ usbCall.pc = "setUsbMode"
    /\ LET sent == [usbCall EXCEPT !.cmds = @ \o UsbOps(usbCall), !.pc = "done"]
       IN  \E ok \in BOOLEAN :
            IF ok
            THEN /\ usb' = IF sent.cmds # << >> THEN Desired(usbCall) ELSE usb
                 /\ usbCall' = [sent EXCEPT !.saved = TRUE]
            ELSE /\ UNCHANGED usb
                 /\ usbCall' = [sent EXCEPT !.err = "set"]
    /\ UNCHANGED <<power, powerCall>>
    /\ UNCHANGED <<flashVars, apiVars>>

NextUsb == UsbStart \/ setUsbMode

\* node_usb on a board in any USB configuration
InitUsb ==
    /\ InitFlash
    /\ power = [n \in BoardNodes |-> FALSE]
    /\ usb \in [mode : UsbModes, node : BoardNodes, bmc : BOOLEAN]
    /\ powerCall = IdlePowerCall
    /\ usbCall = IdleUsbCall
    /\ InitApi

SpecUsb == InitUsb /\ [][NextUsb]_vars

----------------------------------------------------------------------------
(* download.go and cache.go called directly *)

\* DownloadImage's file handling on every sample URL, content type, container
\* and image
InitFetch ==
    /\ InitFlash
    /\ power = [n \in BoardNodes |-> FALSE]
    /\ usb = [mode |-> "host", node |-> 1, bmc |-> FALSE]
    /\ powerCall = IdlePowerCall
    /\ usbCall = IdleUsbCall
    /\ maint = IdleMaint
    /\ \E u \in FetchURLs, ct \in ContentTypes, k \in Containers, x \in FetchImages :
        fetch = [IdleFetch EXCEPT
                    !.pc = "save", !.url = u.name, !.ext = u.ext,
                    !.contentType = ct.value, !.named = ct.kind,
                    !.kind = k, !.image = x]

SpecFetch == InitFetch /\ [][NextFetch]_vars

\* a clean that removes nothing
CleanedEntries_Nothing(cache) == cache

\* every <name>.img of a cache directory removed
CleanedEntries(cache) == [h \in DOMAIN cache |-> NoFile]

\* what a lookup of every name finds in a backend
Lookups(location) ==
    {h \in Names : GetCachedImagePath(h, location, TRUE).path # NoPath}

\* CleanLocalCache: ReadDir, then os.Remove of every *.img; a Remove that
\* fails ends the loop with the entries in left still there
CleanLocalCache ==
    /\ \E o \in {"ok", "readdir", "remove"} :
        LET present == {h \in Names : localCache[h] # NoFile}
        IN  /\ CASE o = "ok" -> localCache' = CleanedEntries(localCache)
                  [] o = "readdir" -> UNCHANGED localCache
                  [] OTHER ->
                        \E left \in (SUBSET present) \ {{}} :
                            localCache' = [h \in Names |->
                                IF h \in left THEN localCache[h] ELSE NoFile]
            /\ UNCHANGED <<localDir, bmcDir, bmcCache, flow>>
            /\ maint' = [IdleMaint EXCEPT
                    !.op = "CleanLocalCache", !.location = CacheLocationLocal,
                    !.err = (o # "ok"),
                    !.had = (present # {}),
                    !.found = Lookups(CacheLocationLocal)',
                    !.kept = (<<bmcDir, bmcCache>>' = <<bmcDir, bmcCache>>)]
    /\ UNCHANGED <<devVars, fetch>>

\* CleanBMCCache: rm -rf of the BMC cache directory
CleanBMCCache ==
    /\ \E ok \in BOOLEAN :
        /\ IF ok
           THEN /\ bmcDir' = FALSE
                /\ bmcCache' = CleanedEntries(bmcCache)
           ELSE UNCHANGED <<bmcDir, bmcCache>>
        /\ UNCHANGED <<localDir, localCache, flow>>
        /\ maint' = [IdleMaint EXCEPT
                !.op = "CleanBMCCache", !.location = CacheLocationBMC,
                !.cmd = RmCmd,
                !.err = ~ok,
                !.had = (\E h \in Names : bmcCache[h] # NoFile),
                !.found = Lookups(CacheLocationBMC)',
                !.kept = (<<localDir, localCache>>' = <<localDir, localCache>>)]
    /\ UNCHANGED <<devVars, fetch>>

\* a CacheImage that returns no path for location none
CacheImageNoBackend_NoPath(localPath, location) ==
    IF location = CacheLocationNone THEN Miss ELSE Err

\* CacheImage's arms for none and for an unknown location
CacheImageNoBackend(localPath, location) ==
    IF location = CacheLocationNone THEN Hit(localPath) ELSE Err

\* GetCachedImagePath / CacheImage called with a location that names no backend
NoBackendCall ==
    /\ UNCHANGED <<flashVars, devVars, fetch>>
    /\ \E op \in {"GetCachedImagePath", "CacheImage"},
          location \in {CacheLocationNone, UnknownLocation},
          h \in Names, p \in ImagePaths :
        LET r == IF op = "CacheImage"
                 THEN CacheImageNoBackend(UserPath(p), location)
                 ELSE GetCachedImagePath(h, location, TRUE)
        IN  maint' = [IdleMaint EXCEPT
                !.op = op, !.location = location, !.path = UserPath(p),
                !.ret = r.path, !.err = r.err,
                !.kept = (<<localDir, localCache, bmcDir, bmcCache>>'
                            = <<localDir, localCache, bmcDir, bmcCache>>)]

\* NodeFlashResource.Read: the state it is given, set again as it is
ReadFlash(state) == state

\* Read of node_flash on the state a Create or Update stored
FlashRead ==
    /\ UNCHANGED <<flashVars, devVars, fetch>>
    /\ \E f \in SeqFlows :
        /\ flow[f].pc = "done" /\ flow[f].resp.set
        /\ maint' = [IdleMaint EXCEPT
                !.op = "node_flash.Read",
                !.stored = flow[f].resp,
                !.state = ReadFlash(flow[f].resp),
                !.kept = (<<flashVars, power, usb>>' = <<flashVars, power, usb>>)]

Resources == {"node_flash", "node_power", "node_usb"}

\* a Delete that powers the node off
DeleteCalls_PowerOff(resource) ==
    IF resource = "node_power" THEN <<[kind |-> "PowerOff", node |-> 1]>>
    ELSE << >>

\* the client calls of Delete: its body is empty for each of the resources
DeleteCalls(resource) == << >>

\* Delete of node_flash, node_power or node_usb
ResourceDelete ==
    /\ UNCHANGED <<flashVars, devVars, fetch>>
    /\ \E resource \in Resources :
        maint' = [IdleMaint EXCEPT
                !.op = "Delete", !.path = <<resource, "">>,
                !.calls = DeleteCalls(resource),
                !.kept = (<<flashVars, power, usb>>' = <<flashVars, power, usb>>)]

\* provisioning and cache maintenance in any order
NextMaint ==
    \/ \E f \in SeqFlows : StartConc(f) \/ Run(f)
    \/ CleanLocalCache
    \/ CleanBMCCache
    \/ NoBackendCall
    \/ FlashRead
    \/ ResourceDelete

SpecMaint == Init /\ [][NextMaint]_vars

\* the two backends side by side, every call succeeding

\* cacheLocally on a cache directory: nothing when the entry exists, else
\* the copy
cacheLocally(cache, h, content) ==
    IF cache[h] # NoFile
    THEN [cache |-> cache, path |-> LocalCachePath(h), transfer |-> FALSE]
    ELSE [cache |-> [cache EXCEPT ![h] = Written("ok", content)],
          path |-> LocalCachePath(h), transfer |-> TRUE]

\* a put on the BMC that uploads whether or not the entry exists
cacheToBMC_Always(cache, dirExists, h, content) ==
    [cache |-> [g \in DOMAIN cache |->
                    IF g = h THEN content
                    ELSE IF dirExists THEN cache[g] ELSE NoFile],
     path |-> BMCCachePath(h), transfer |-> TRUE]

\* cacheToBMC on the BMC's cache directory: mkdir -p, nothing more when the
\* listing has the entry, else the upload
cacheToBMC(cache, dirExists, h, content) ==
    LET listed == [g \in DOMAIN cache |-> IF dirExists THEN cache[g] ELSE NoFile]
    IN  IF listed[h] # NoFile
        THEN [cache |-> listed, path |-> BMCCachePath(h), transfer |-> FALSE]
        ELSE [cache |-> [listed EXCEPT ![h] = Written("ok", content)],
              path |-> BMCCachePath(h), transfer |-> TRUE]

\* GetCachedImagePath(h, ...) on both backends
BothLookup ==
    /\ UNCHANGED <<flashVars, devVars, fetch>>
    /\ \E h \in Names :
        LET l == GetCachedImagePath(h, CacheLocationLocal, TRUE)
            b == GetCachedImagePath(h, CacheLocationBMC, TRUE)
        IN  maint' = [IdleMaint EXCEPT
                !.op = "lookup", !.hash = h,
                !.local = [path |-> l.path, err |-> l.err, transfer |-> FALSE],
                !.bmc = [path |-> b.path, err |-> b.err, transfer |-> FALSE]]

\* CacheImage(path, h, ...) on both backends
BothPut ==
    /\ \E h \in Names, content \in FetchImages :
        LET l == cacheLocally(localCache, h, content)
            b == cacheToBMC(bmcCache, bmcDir, h, content)
        IN  /\ localCache' = l.cache
            /\ bmcCache' = b.cache
            /\ bmcDir' = TRUE
            /\ maint' = [IdleMaint EXCEPT
                    !.op = "put", !.hash = h,
                    !.local = [path |-> l.path, err |-> FALSE, transfer |-> l.transfer],
                    !.bmc = [path |-> b.path, err |-> FALSE, transfer |-> b.transfer]]
    /\ UNCHANGED <<localDir, flow, devVars, fetch>>

\* CleanLocalCache and CleanBMCCache
BothClear ==
    /\ localCache' = CleanedEntries(localCache)
    /\ bmcCache' = CleanedEntries(bmcCache)
    /\ bmcDir' = FALSE
    /\ maint' = [IdleMaint EXCEPT !.op = "clear"]
    /\ UNCHANGED <<localDir, flow, devVars, fetch>>

NextEquiv == BothLookup \/ BothPut \/ BothClear

\* both cache directories as NewImageCache leaves them on a new machine
InitEquiv ==
    /\ localDir = TRUE
    /\ localCache = [h \in Names |-> NoFile]
    /\ bmcDir = FALSE
    /\ bmcCache = [h \in Names |-> NoFile]
    /\ flow = [f \in Flows |-> [IdleFlow EXCEPT !.node = f]]
    /\ power = [n \in BoardNodes |-> FALSE]
    /\ usb = [mode |-> "host", node |-> 1, bmc |-> FALSE]
    /\ powerCall = IdlePowerCall
    /\ usbCall = IdleUsbCall
    /\ InitApi

SpecEquiv == InitEquiv /\ [][NextEquiv]_vars

----------------------------------------------------------------------------
(* Properties *)

\* the path of the entry named h in backend location
EntryPath(location, h) ==
    IF location = CacheLocationLocal THEN LocalCachePath(h) ELSE BMCCachePath(h)

\* the digest of the image the plan's source really holds
SourceHash(fl) ==
    calculateSHA256(IF fl.ImageURL # NoURL THEN fl.ImageURL.image
                    ELSE LocalFiles[fl.ImagePath])

\* C1 as stated: when the pre-fetch lookup of a URL plan with an expected hash
\* H returns a path, the call makes no download and no put (so no transfer),
\* resolves the image to the cached path, dispatches the flash on that path
\* before it ends, and a call that succeeds reports H.
C1_Original ==
    \A f \in Flows :
        LET fl == flow[f]
            cached == EntryPath(fl.Cache, fl.SHA256)
        IN  fl.hit =>
            /\ fl.ImageURL # NoURL /\ fl.SHA256 # ""
            /\ fl.Cache \in {CacheLocationLocal, CacheLocationBMC}
            /\ fl.downloads = 0 /\ fl.puts = 0 /\ fl.transfers = 0
            /\ fl.imagePath = cached
            /\ \A i \in DOMAIN fl.flashes : fl.flashes[i].path = cached
            /\ fl.pc = "done" => Len(fl.flashes) = 1
            /\ fl.outcome = "ok" => fl.result = fl.SHA256

\* C2: a call that returns success has dispatched exactly one flash operation,
\* a call that failed before the dispatch (cache initialisation, download,
\* decompression, hash) has dispatched none, and no call dispatches two.
C2_ExactlyOneFlash ==
    \A f \in Flows :
        LET fl == flow[f]
        IN  /\ Len(fl.flashes) <= 1
            /\ fl.outcome = "ok" => Len(fl.flashes) = 1
            /\ (fl.outcome = "err" /\ fl.phase \in {"cache", "download", "sha256"})
                    => Len(fl.flashes) = 0
            /\ \A i \in DOMAIN fl.flashes :
                    fl.flashes[i].kind \in {"FlashNode", "FlashNodeLocal"}

C2_Witness ==
    \E f \in Flows :
        /\ flow[f].outcome = "ok" /\ Len(flow[f].flashes) = 1
        /\ flow[f].downloads = 1 /\ flow[f].puts = 1

\* C3 as stated: a run whose source resolves to the hash the previous run of
\* the same node already flashed does not dispatch another flash.
C3_Original ==
    \A f \in Flows :
        ~ (flow[f].prev # "" /\ flow[f].prev = flow[f].sha256
           /\ flow[f].flashes # << >>)

\* C3 amended: the image is delivered to the flashing step once per run: a run
\* that gets as far as resolving the hash the previous run flashed dispatches
\* exactly one more flash.
C3_RerunFlashesAgain ==
    \A f \in Flows :
        (flow[f].pc = "done" /\ flow[f].prev # "" /\ flow[f].prev = flow[f].sha256)
            => Len(flow[f].flashes) = 1

C3_Witness ==
    \E f \in Flows :
        /\ flow[f].pc = "done" /\ flow[f].outcome = "ok"
        /\ flow[f].prev # "" /\ flow[f].prev = flow[f].sha256

\* C4 as stated: a put that finds an entry for its hash performs no copy or
\* upload and, when it succeeds, returns the path of that entry.
C4_Original ==
    \A f \in Flows :
        LET fl == flow[f]
        IN  fl.putHad =>
            /\ fl.transfers = 0
            /\ (fl.pc \in {"Flash", "done"} /\ ~fl.putErr)
                    => fl.putRet = EntryPath(fl.Cache, fl.sha256)

\* C5 as stated: after a successful put under hash h, a lookup of h in the same
\* backend returns a path whose content hashes to h.
C5_Original ==
    \A f \in Flows :
        LET fl == flow[f]
            found == GetCachedImagePath(fl.sha256, fl.Cache, TRUE)
        IN  (fl.pc \in {"Flash", "done"} /\ fl.puts = 1 /\ ~fl.putErr) =>
            /\ found.path # NoPath
            /\ calculateSHA256(FileContent(fl, found.path)) = fl.sha256

\* C6 as stated: a call whose plan carries a sha256 other than the digest of
\* the source's image fails, dispatches no flash and leaves no entry named by
\* that sha256 in either cache.
C6_Original ==
    \A f \in Flows :
        LET fl == flow[f]
        IN  (fl.pc = "done" /\ fl.SHA256 # "" /\ fl.SHA256 # SourceHash(fl)) =>
            /\ fl.outcome = "err"
            /\ fl.flashes = << >>
            /\ localCache[fl.SHA256] = NoFile
            /\ bmcCache[fl.SHA256] = NoFile

\* C7: when DownloadImage computed a hash different from the expected one, the
\* call has failed in the download phase, nothing is left of the download in
\* the temp directory, and no put, transfer or flash was made.
C7_MismatchDeletesOutput ==
    \A f \in Flows :
        LET fl == flow[f]
        IN  (fl.SHA256 # "" /\ fl.hashed # "" /\ fl.hashed # fl.SHA256) =>
            /\ fl.pc = "done" /\ fl.outcome = "err" /\ fl.phase = "download"
            /\ \A n \in TmpNames : fl.tmp[n] = NoFile
            /\ fl.puts = 0 /\ fl.transfers = 0 /\ fl.flashes = << >>

C7_Witness ==
    \E f \in Flows :
        /\ flow[f].SHA256 = "hB" /\ flow[f].hashed = "hA"
        /\ flow[f].ImageURL.packed = "xz"

\* C8: with a URL plan carrying hash H and cache = local, when the local cache
\* directory can be made and Stat does not fail:
\* a run that began with no entry for H downloads once and, when its put
\* succeeds, leaves an entry for H holding content of hash H; the next run with
\* the same plan gets a cache hit, downloads nothing and reports H.
C8_EndToEnd ==
    \A f \in Flows :
        LET fl == flow[f]
        IN  (fl.pc = "done" /\ fl.Cache = CacheLocationLocal /\ fl.SHA256 # ""
             /\ fl.phase # "cache" /\ ~fl.lookupErr) =>
            /\ fl.fresh =>
                /\ fl.downloads = 1 /\ ~fl.hit
                /\ (fl.puts = 1 /\ ~fl.putErr) =>
                        calculateSHA256(localCache[fl.SHA256]) = fl.SHA256
                /\ fl.outcome = "ok" => fl.result = fl.SHA256
            /\ fl.again =>
                /\ fl.hit /\ fl.downloads = 0 /\ fl.transfers = 0
                /\ fl.outcome = "ok" => fl.result = fl.SHA256

C8_Witness ==
    \E f \in Flows :
        /\ flow[f].again /\ flow[f].hit /\ flow[f].outcome = "ok"
        /\ flow[f].Cache = CacheLocationLocal /\ flow[f].result = "hA"

\* C9 as stated: FlashNodeLocal is called only with the path of an entry of the
\* bmc cache, and FlashNode only with a path on the local machine.
C9_Original ==
    \A f \in Flows :
        \A i \in DOMAIN flow[f].flashes :
            LET op == flow[f].flashes[i]
            IN  /\ op.kind = "FlashNodeLocal" => op.path[1] = "bmccache"
                /\ op.kind = "FlashNode" => op.path[1] # "bmccache"

\* C10 as stated: when the call is over, a file the download created is still
\* in the temp directory only if it is the resolved image path, and not when
\* it was stored in a cache.
C10_Original ==
    \A f \in Flows :
        LET fl == flow[f]
        IN  fl.pc = "done" =>
            \A n \in TmpNames :
                fl.tmp[n] # NoFile =>
                    /\ TmpPath(n) = fl.imagePath
                    /\ ~ (fl.puts = 1 /\ ~fl.putErr)

\* C11 as stated: a call whose put failed still dispatches its flash and does
\* not fail for any reason but the flash operation itself.
C11_Original ==
    \A f \in Flows :
        LET fl == flow[f]
        IN  (fl.pc = "done" /\ fl.putErr) =>
            /\ Len(fl.flashes) = 1
            /\ fl.outcome = "ok" \/ (fl.outcome = "err" /\ fl.phase = "flash")

\* C12 as stated: a call with cache = none makes no operation on a cache
\* backend and never fails because of a cache backend.
C12_Original ==
    \A f \in Flows :
        flow[f].Cache = CacheLocationNone =>
            /\ ~flow[f].touched
            /\ flow[f].phase # "cache"

\* C13 as stated: a lookup whose backend call failed for a reason other than
\* the directory (or file) not existing returns an error, never a miss.
C13_Original ==
    \A f \in Flows :
        flow[f].lookupFailed => (flow[f].lookupErr /\ ~flow[f].hit)

\* C19 as stated: when the deadline expires during the download, the call
\* returns an error, dispatches no flash and leaves no partially written file
\* in the temp directory.
C19_Original ==
    \A f \in Flows :
        LET fl == flow[f]
        IN  fl.timeout =>
            /\ fl.pc = "done" /\ fl.outcome = "err" /\ fl.flashes = << >>
            /\ \A n \in TmpNames : fl.tmp[n] = NoFile

\* C14: a node_power Create or Update reads the power status first; it issues
\* no command when the node is already in the desired state, exactly one
\* (PowerOn for on, PowerOff for off) when it is not, and none when the read
\* fails.
C14_PowerIdempotent ==
    LET c == powerCall
    IN  /\ c.cmds # << >> => c.reads = 1
        /\ c.pc = "done" =>
            /\ c.reads = 1
            /\ c.err = "status" => c.cmds = << >>
            /\ (c.err # "status" /\ c.was = c.desiredState) => c.cmds = << >>
            /\ (c.err # "status" /\ c.was # c.desiredState) =>
                    c.cmds = << PowerCmd(c.node, c.desiredState) >>

C14_Witness ==
    /\ powerCall.pc = "done" /\ powerCall.op = "Update" /\ powerCall.saved
    /\ powerCall.was = powerCall.desiredState /\ powerCall.cmds = << >>
    /\ \E n \in BoardNodes : power[n]

\* C15 as stated: a node_usb Create or Update reads the USB state first and
\* issues no command when mode, node and route are already as desired, and
\* exactly one when they are not.
C15_Original ==
    LET c == usbCall
    IN  c.pc = "done" =>
            /\ c.reads = 1
            /\ c.was = Desired(c) => c.cmds = << >>
            /\ c.was # Desired(c) => Len(c.cmds) = 1

\* C15 amended: a node_usb Create or Update never reads the USB state and
\* issues exactly one command, the one of the desired mode with the desired
\* node and route, also when the board is already configured as desired.
C15_AlwaysOneCommand ==
    LET c == usbCall
    IN  /\ c.reads = 0
        /\ c.pc = "done" => c.cmds = << UsbCmd(c.node, c.mode, c.bmc) >>

C15_Witness ==
    /\ usbCall.pc = "done" /\ usbCall.saved
    /\ usbCall.was = Desired(usbCall) /\ Len(usbCall.cmds) = 1

\* a flow whose CacheImage call has begun (and whose executeFlash is not over
\* and restarted)
InPut(f) == flow[f].puts = 1

\* the content of the entry flow f's put is about
Entry(f) ==
    IF flow[f].Cache = CacheLocationLocal THEN localCache[flow[f].sha256]
    ELSE bmcCache[flow[f].sha256]

\* C16 as stated: a path returned by a lookup, or by a put's already-cached
\* check, never names an entry that is still being written.
C16_Original ==
    \A f \in Flows : flow[f].seen # Partial

\* C17 as stated: a put that begins when the entry for its hash is present and
\* complete makes no copy or upload and, unless it fails, returns the entry's
\* path; and when every put under way began so, the entry keeps its content.
C17_Original ==
    /\ \A f \in Flows :
        LET fl == flow[f]
        IN  fl.putSaw \in Images =>
            /\ fl.transfers = 0
            /\ (fl.pc \in {"Flash", "done"} /\ ~fl.putErr) =>
                    fl.putRet = EntryPath(fl.Cache, fl.sha256)
    /\ (\A f \in Flows : InPut(f) => flow[f].putSaw \in Images) =>
            \A f \in Flows : InPut(f) => Entry(f) = flow[f].putSaw

\* C18 as stated: when two flows both found no entry for the same hash in the
\* same backend and both puts have returned, the path of every put that
\* returned success is present and holds the complete content.
C18_Original ==
    \A f, g \in Flows :
        (/\ f # g /\ InPut(f) /\ InPut(g)
         /\ flow[f].Cache = flow[g].Cache /\ flow[f].sha256 = flow[g].sha256
         /\ flow[f].putSaw = NoFile /\ flow[g].putSaw = NoFile
         /\ flow[f].pc \in {"Flash", "done"} /\ flow[g].pc \in {"Flash", "done"}
         /\ ~flow[f].putErr)
        => /\ Entry(f) \in Images
           /\ calculateSHA256(Entry(f)) = flow[f].sha256

\* C20 as stated: no step of any flow changes an entry that holds a completely
\* written image.
C20_Original ==
    [][\A h \in Names :
        /\ localCache[h] \in Images => localCache'[h] = localCache[h]
        /\ bmcCache[h] \in Images => bmcCache'[h] = bmcCache[h]]_vars

\* C25: detectCompression decides by the URL's suffix, in any letter case, and
\* asks the content type only when the suffix names no compression; a content
\* type of gzip gives gz; nothing matching gives no compression.
C25_SuffixThenContentType ==
    fetch.pc \notin {"idle", "save"} =>
        /\ fetch.ext # "" => fetch.compression = fetch.ext
        /\ fetch.ext = "" => fetch.compression = fetch.named

C25_Witness ==
    /\ fetch.pc = "decompress"
    /\ fetch.ext = "xz" /\ fetch.named = "gz" /\ fetch.compression = "xz"

\* C26: a download detected as compressed is decompressed into a file whose
\* path differs from the compressed file's; once decompression has succeeded
\* the compressed file is gone and the output exists.
C26_NewFileOriginalRemoved ==
    /\ fetch.pc = "decompress" =>
            outputPath(fetch.downloadPath, fetch.compression) # fetch.downloadPath
    /\ fetch.decompressed =>
            /\ fetch.finalPath # fetch.downloadPath
            /\ ~Exists(fetch.files, fetch.downloadPath)
            /\ Exists(fetch.files, fetch.finalPath)

C26_Witness ==
    /\ fetch.decompressed
    /\ fetch.ext = "gz"
    /\ TrimSuffix(fetch.downloadPath, DotExt(fetch.compression)) = fetch.downloadPath

C21_ClearEmptiesOneBackend ==
    (maint.op \in {"CleanLocalCache", "CleanBMCCache"} /\ ~maint.err) =>
        /\ maint.found = {}
        /\ maint.kept

C21_Witness ==
    /\ maint.op = "CleanLocalCache" /\ ~maint.err /\ maint.had
    /\ localCache = [h \in Names |-> NoFile]
    /\ \E h \in Names : bmcCache[h] # NoFile

\* C22: with location none, CacheImage returns the path it was given and
\* GetCachedImagePath returns no path, both without error; with a location
\* that is none of local, bmc, none, both return an error; no backend changes.
C22_NoneAndUnknownLocation ==
    maint.op \in {"GetCachedImagePath", "CacheImage"} =>
        /\ maint.kept
        /\ maint.location = CacheLocationNone =>
            /\ ~maint.err
            /\ maint.op = "CacheImage" => maint.ret = maint.path
            /\ maint.op = "GetCachedImagePath" => maint.ret = NoPath
        /\ maint.location # CacheLocationNone =>
            /\ maint.err
            /\ maint.ret = NoPath

C22_Witness ==
    /\ maint.op = "CacheImage" /\ maint.location = CacheLocationNone
    /\ maint.ret = maint.path /\ maint.path # NoPath
    /\ \E h \in Names : localCache[h] # NoFile

\* C23 as stated: every name of a cache entry and every hash a successful call
\* reports is a 64-character lower-case hex string, also when it comes from
\* the plan's sha256.
C23_Original ==
    /\ \A h \in Names :
            (localCache[h] # NoFile \/ bmcCache[h] # NoFile) => HashLen(h) = 64
    /\ \A f \in Flows :
            flow[f].outcome = "ok" => HashLen(flow[f].result) = 64

\* C24 as stated: the hash a successful call reports is the digest of the
\* bytes it handed to the flash operation, whatever the source and whether or
\* not the plan carried a sha256.
C24_Original ==
    \A f \in Flows :
        LET fl == flow[f]
        IN  fl.outcome = "ok" =>
                \A i \in DOMAIN fl.flashes :
                    calculateSHA256(fl.flashes[i].content) = fl.result

\* C29: a pre-fetch lookup that returns an error does not end the call: the
\* call goes on to DownloadImage as after a miss, and if it fails it fails in
\* a later step.
C29_LookupErrorIsAMiss ==
    \A f \in Flows :
        LET fl == flow[f]
        IN  fl.lookupErr =>
            /\ ~fl.hit
            /\ fl.pc = "DownloadImage" \/ fl.downloads = 1
            /\ fl.outcome # "panic"
            /\ fl.outcome = "err" => fl.phase \in {"download", "flash"}

C29_Witness ==
    \E f \in Flows :
        /\ flow[f].lookupErr /\ flow[f].outcome = "ok"
        /\ flow[f].downloads = 1 /\ flow[f].puts = 1 /\ flow[f].result = "hA"

\* C30 as stated: a URL plan without sha256 makes no lookup, calls
\* DownloadImage exactly once whatever the caches hold, and puts the result
\* under the computed hash, a put that transfers nothing when that hash is
\* already cached.
C30_Original ==
    \A f \in Flows :
        LET fl == flow[f]
        IN  (fl.ImageURL # NoURL /\ fl.SHA256 = "") =>
            /\ fl.lookups = 0 /\ ~fl.hit
            /\ fl.pc \in {"CacheImage", "CacheOpen", "CacheCopy", "Flash"}
                    => fl.downloads = 1
            /\ (fl.pc = "done" /\ fl.phase # "cache") => fl.downloads = 1
            /\ (fl.pc \in {"Flash", "done"} /\ fl.phase # "cache"
                 /\ fl.phase # "download" /\ fl.Cache # CacheLocationNone)
                    => fl.puts = 1 /\ fl.sha256 = fl.hashed
            /\ fl.putHad => fl.transfers = 0

\* C28 as stated: the state says flash_status success, with sha256 the
\* reported hash and a new last_flashed, only when executeFlash returned a
\* result; whenever executeFlash fails, the state says flash_status failed,
\* an error diagnostic is raised and last_flashed gets no new timestamp.
C28_Original ==
    \A f \in Flows :
        LET fl == flow[f]
        IN  fl.pc = "done" =>
            /\ fl.resp.FlashStatus = "success" =>
                /\ fl.outcome = "ok"
                /\ fl.resp.SHA256 = fl.result
                /\ fl.resp.LastFlashed = "now"
            /\ fl.outcome # "ok" =>
                /\ fl.resp.set /\ fl.resp.FlashStatus = "failed"
                /\ fl.resp.diag
                /\ fl.resp.LastFlashed # "now"

\* C36 as stated: no call takes a prefix of a hash string that is longer than
\* the string: the slices sha256[:16] and SHA256[:8] never panic, also for a
\* sha256 supplied with the plan.
C36_Original ==
    \A f \in Flows : flow[f].outcome # "panic"

C31_RemotePrimitives ==
    /\ maint.cmd \in {"", RmCmd}
    /\ maint.cmd = RmCmd <=> maint.op = "CleanBMCCache"
    /\ \A f \in Flows :
        LET fl == flow[f]
            R == fl.remote
            n == IF fl.Cache = CacheLocationBMC THEN fl.lookups ELSE 0
            P == SubSeq(R, n + 1, Len(R))
        IN  /\ fl.Cache # CacheLocationBMC => R = << >>
            /\ \A i \in DOMAIN R :
                /\ R[i].call \in {"ListDirectory", "UploadFile", "ExecuteCommand"}
                /\ R[i].call = "ExecuteCommand" => R[i].cmd = MkdirCmd
                /\ R[i].call = "ListDirectory" => R[i].path = bmcCacheDir
                /\ R[i].call = "UploadFile" => R[i].path = BMCCachePath(fl.sha256)
                /\ i <= n => R[i].call = "ListDirectory"
            /\ Len(R) >= n /\ Len(P) <= 3
            /\ P # << >> => fl.puts = 1 /\ P[1] = ExecuteCommand(MkdirCmd)
            /\ Len(P) >= 2 => P[2] = ListDirectory(bmcCacheDir)
            /\ Len(P) = 3 => P[3].call = "UploadFile"
            /\ fl.mkdirFailed => Len(P) = 1 /\ fl.putErr /\ fl.transfers = 0
            /\ (fl.puts = 1 /\ fl.Cache = CacheLocationBMC) => P # << >>

C31_Witness ==
    \E f \in Flows :
        /\ flow[f].lookups = 1 /\ Len(flow[f].remote) = 4
        /\ flow[f].remote[4].call = "UploadFile"
        /\ flow[f].outcome = "ok"
        /\ maint.op = "CleanBMCCache"

\* C35: a call with a Local source makes no download, creates no temp file,
\* and leaves the file at image_path as it was, whatever the cache location
\* and whether or not the put or the flash fails.
C35_LocalSourceUntouched ==
    \A f \in Flows :
        LET fl == flow[f]
        IN  (fl.pc # "idle" /\ fl.ImagePath # "") =>
            /\ fl.downloads = 0 /\ fl.tmpDir = 0 /\ fl.tmp = NoTmp
            /\ fl.tempFile = NoPath
            /\ fl.user = LocalFiles[fl.ImagePath]

C35_Witness ==
    \E f \in Flows :
        /\ flow[f].ImagePath # "" /\ flow[f].pc = "done"
        /\ flow[f].putErr /\ flow[f].outcome = "err" /\ flow[f].phase = "flash"
        /\ flow[f].user = "imgA"

\* C38: two calls that download, at the same time or not and from the same
\* URL or not, have different temp directories, so none of the files one of
\* them writes, decompresses into, hashes or removes is a file of the other.
C38_OwnTempDirectory ==
    \A f \in Flows : \A g \in Flows \ {f} :
        (flow[f].tmpDir # 0 /\ flow[g].tmpDir # 0) => flow[f].tmpDir # flow[g].tmpDir

C38_Witness ==
    /\ flow[1].pc = "CacheCopy" /\ flow[2].pc = "CacheCopy"
    /\ flow[1].ImageURL = flow[2].ImageURL
    /\ flow[1].downloads = 1 /\ flow[2].downloads = 1
    /\ flow[1].tmpDir # 0 /\ flow[2].tmpDir # 0

\* C34: once a Create or Update of node_power with desired state d for node n
\* has saved its state, the board powers n exactly when d, every other node
\* is powered as it was when the call began, and a Read that follows reports
\* power_on = d.
C34_PowerReachesDesired ==
    LET c == powerCall
    IN  (c.pc \in {"done", "read"} /\ c.saved) =>
            /\ power[c.node] = c.desiredState
            /\ \A n \in BoardNodes \ {c.node} : power[n] = c.before[n]
            /\ (c.pc = "read" /\ c.err = "") => c.PowerOn = c.desiredState

C34_Witness ==
    /\ powerCall.pc = "read" /\ powerCall.err = "" /\ powerCall.op = "Create"
    /\ powerCall.cmds # << >> /\ ~powerCall.desiredState /\ ~powerCall.PowerOn
    /\ \E n \in BoardNodes \ {powerCall.node} : power[n]

\* C33: of a zip archive decompressZip extracts the first entry and nothing
\* else; an archive without entries is an error and no output file is made;
\* an archive with more entries is accepted and the others are ignored.
C33_ZipFirstEntry ==
    LET body == Served(fetch.kind, fetch.image)
        out == outputPath(fetch.downloadPath, "zip")
    IN  (fetch.compression = "zip" /\ fetch.kind \in {"zip", "zip0", "zip2"}
         /\ fetch.pc \in {"hash", "done"}) =>
            /\ fetch.kind = "zip0" =>
                /\ fetch.err = "reader" /\ ~fetch.decompressed
                /\ ~Exists(fetch.files, out)
            /\ fetch.kind # "zip0" =>
                /\ fetch.err # "reader"
                /\ fetch.decompressed =>
                    /\ fetch.files = {<<out, fetch.image>>}
                    /\ fetch.finalPath = out

C33_Witness ==
    /\ fetch.pc = "done" /\ fetch.err = "" /\ fetch.decompressed
    /\ fetch.compression = "zip" /\ fetch.kind = "zip2"
    /\ fetch.image = "imgB" /\ fetch.SHA256 = "hB"

\* C32: in a sequence of lookups, puts and clears in which no call fails, the
\* local and the BMC backend answer alike: a lookup hits in one exactly when
\* it hits in the other, a put transfers in one exactly when it transfers in
\* the other, an entry's path is <root>/<hash>.img in each, and each holds an
\* entry for the same hashes.
C32_BackendsAgree ==
    /\ \A h \in Names :
            (localCache[h] # NoFile) = (bmcDir /\ bmcCache[h] # NoFile)
    /\ ~bmcDir => \A h \in Names : bmcCache[h] = NoFile
    /\ maint.op \in {"lookup", "put"} =>
        /\ ~maint.local.err /\ ~maint.bmc.err
        /\ (maint.local.path # NoPath) = (maint.bmc.path # NoPath)
        /\ maint.local.transfer = maint.bmc.transfer
        /\ maint.local.path # NoPath =>
            /\ maint.local.path = LocalCachePath(maint.hash)
            /\ maint.bmc.path = BMCCachePath(maint.hash)
        /\ maint.op = "put" => maint.local.path # NoPath
        /\ maint.op = "lookup" =>
                (maint.local.path # NoPath) = (localCache[maint.hash] # NoFile)

C32_Witness ==
    /\ maint.op = "put" /\ ~maint.local.transfer /\ ~maint.bmc.transfer
    /\ maint.bmc.path = BMCCachePath("hA")
    /\ localCache["hA"] = "imgA" /\ bmcCache["hA"] = "imgA"
    /\ localCache["hB"] = NoFile

\* C39: Read of node_flash returns the state it was given, and it and the
\* Delete of node_flash, node_power and node_usb make no call on the BMC
\* client: the caches, the nodes' power and the USB configuration are as
\* before.
C39_ReadDeleteChangeNothing ==
    maint.op \in {"node_flash.Read", "Delete"} =>
        /\ maint.calls = << >>
        /\ maint.kept
        /\ maint.op = "node_flash.Read" => maint.state = maint.stored

C39_Witness ==
    /\ maint.op = "Delete" /\ maint.path = <<"node_power", "">>
    /\ \E h \in Names : bmcCache[h] # NoFile
    /\ \E f \in SeqFlows : flow[f].outcome = "ok"

====
